---- MODULE Spec2Model ----
(***************************************************************************)
(* A model of the SCION control-plane message layer:                       *)
(*   - util.CalcPadding / util.FillPadding        (src/unnamed/part_002)   *)
(*   - sciond message types                  (src/go/lib/sciond/types.go)  *)
(*   - proto.SignS                                (src/unnamed/part_001)   *)
(* Go slices are 0-based; sequences here are 1-based, so Go's b[i] is      *)
(* b[i + 1].  Each component has its own specification; the variables of   *)
(* the other components stay at their idle values.                          *)
(***************************************************************************)
EXTENDS Integers, Sequences, FiniteSets, TLC

VARIABLES
    \* ---- padding (util) ----
    b,            \* the buffer handed to FillPadding (common.RawBytes)
    bPre,         \* the buffer's content when the last call was entered
    padOp,        \* "none" | "CalcPadding" | "FillPadding"
    padLength,    \* argument length of the last call
    padBlkSize,   \* argument blkSize of the last call
    padRet,       \* value returned by the last call
    padPanic,     \* TRUE iff the last call panicked (run-time error)
    \* ---- sciond.HostInfo ----
    h,            \* the HostInfo last constructed (zero value at the start)
    hostOp,       \* "none" | "HostInfoFromHostAddr" | "Host"
    hostArg,      \* argument host of the last HostInfoFromHostAddr call
    portArg,      \* argument port of the last HostInfoFromHostAddr call
    hostErr,      \* error reported by the last call
    hostPanic,    \* TRUE iff the last call panicked
    hostRet,      \* address returned by the last HostInfo.Host call
    \* ---- sciond.IFInfoReply ----
    reply,        \* the IFInfoReply: [RawEntries |-> sequence of IFInfoReplyEntry]
    replyPre,     \* the reply when the last Entries call was entered
    ifOp,         \* "none" | "Append" | "Entries"
    entriesPrev,  \* the map the call before returned, if that step was an
                  \* Entries call on this same reply
    entriesRet,   \* the map returned by the last Entries call
    \* ---- sciond.Pld ----
    p,            \* the payload: Id, Which and the ten sub-message fields
    pldOp,        \* "none" | "union" | "String"
    unionRet,     \* (value, error) returned by the last union call
    stringRet,    \* string returned by the last String call
    \* ---- sciond enumerations ----
    enumOp,       \* "none" | "PathErrorCode" | "RevResult" | "ServiceType"
    enumArg,      \* the numeric value String() was called on
    enumRet,      \* string returned by the last String call
    \* ---- proto.SignS ----
    s,            \* the SignS instance: Timestamp, Type, Src, Signature
    now,          \* the clock: time.Now().Unix()
    signOp,       \* the last step: "NewSignS" | "Sign" | "SignAndSet" | "Verify" | ...
    argKey,       \* argument key of the last Sign, SignAndSet or Verify call
    argMsg,       \* argument message of that call
    signRet,      \* bytes returned by the last Sign or Pack call
    signErr,      \* error returned by the last call
    lastSigned,   \* key, message and signature of the last SignAndSet on s that
                  \* succeeded, NotSigned if there is none
    copyRet,      \* the instance returned by the step if it was a Copy call
    overwrote,    \* the step was a SignAndSet call on an instance whose
                  \* Signature was not empty
    \* ---- proto.SignS.Pack ----
    ps,           \* the SignS instance Pack is called on
    packOp,       \* "none" | "SetFields" | "Pack"
    packRet,      \* the bytes returned by the last Pack call
    \* ---- sciond.FwdPathMeta ----
    fpm,          \* the FwdPathMeta: FwdPath, Mtu, Interfaces
    pathOp,       \* "none" | "Append" | "SrcIA" | "DstIA"
    iaRet,        \* the *addr.ISD_AS returned by the last SrcIA or DstIA call
    \* ---- proto.SignS.Copy (instances and byte buffers by reference) ----
    objs,         \* the SignS instances allocated so far; a *SignS is an index
                  \* into objs, 0 is the nil pointer
    bufs,         \* the backing arrays allocated so far; a RawBytes is an index
                  \* into bufs, 0 is the nil slice
    orig,         \* the *SignS that Copy is called on
    cpy,          \* the *SignS returned by the last Copy call
    copyOp        \* "none" | "Copy" | "WriteOrig" | "WriteCopy"

padVars == <<b, bPre, padOp, padLength, padBlkSize, padRet, padPanic>>
hostVars == <<h, hostOp, hostArg, portArg, hostErr, hostPanic, hostRet>>
ifVars == <<reply, replyPre, ifOp, entriesPrev, entriesRet>>

pldVars == <<p, pldOp, unionRet, stringRet>>
enumVars == <<enumOp, enumArg, enumRet>>

signVars == <<s, now, signOp, argKey, argMsg, signRet, signErr, lastSigned,
              copyRet, overwrote>>

packVars == <<ps, packOp, packRet>>

pathVars == <<fpm, pathOp, iaRet>>

copyVars == <<objs, bufs, orig, cpy, copyOp>>

vars == <<padVars, hostVars, ifVars, pldVars, enumVars, signVars, packVars, pathVars,
          copyVars>>

(***************************************************************************)
(* Bounds of the model                                                      *)
(***************************************************************************)
MaxBuf == 4       \* longest buffer
MaxBlk == 3       \* largest block size
MaxEntries == 3   \* longest IFInfoReply.RawEntries
MaxCode == 40     \* enumeration values 0..MaxCode are tried, beside a few large ones
MaxSignType == 2  \* SignType values 0..MaxSignType are tried
MsgLen == 1       \* length of the messages handed to Sign and Verify
MaxTime == 1      \* the clock runs from 0 to MaxTime
MaxField == 1     \* longest Src and Signature of the instances handed to Pack
MaxIfaces == 3    \* longest FwdPathMeta.Interfaces
MaxObjs == 2      \* most SignS instances allocated (the original and its copies)

\* Sample byte values (a byte is 0..255).
ByteVals == {0, 1, 255}

\* All sequences over S of length 0..n.
SeqUpTo(S, n) == UNION {[1..k -> S] : k \in 0..n}

(***************************************************************************)
(* util.CalcPadding / util.FillPadding                                      *)
(***************************************************************************)

\* Mutant: the remainder test is dropped, so an aligned length gets a full block.
CalcPadding_NoZeroCase(length, blkSize) ==
    blkSize - (length % blkSize)

\* func CalcPadding(length, blkSize int) int   (length >= 0, blkSize > 0)
CalcPadding(length, blkSize) ==
    LET spare == length % blkSize
    IN  IF spare # 0 THEN blkSize - spare ELSE 0

\* The loop of FillPadding: `for i := range b[length:total] { b[i] = 0 }`.
\* i ranges over the indices of the sub-slice, 0 .. total-length-1, and the
\* assignment writes b[i] of the whole buffer.
FillLoop(buf, length, total) ==
    [j \in 1..Len(buf) |-> IF (j - 1) \in 0..(total - length - 1) THEN 0 ELSE buf[j]]

\* The slice expression b[length:total] panics unless length <= total <= cap(b).
SliceInRange(buf, length, total) ==
    length <= total /\ total <= Len(buf)

CalcPaddingCall ==
    \E length \in 0..MaxBuf, blkSize \in 0..MaxBlk :
        /\ padOp' = "CalcPadding"
        /\ padLength' = length
        /\ padBlkSize' = blkSize
        /\ IF blkSize = 0
           THEN \* integer divide by zero
                padPanic' = TRUE /\ padRet' = 0
           ELSE padPanic' = FALSE /\ padRet' = CalcPadding(length, blkSize)
        /\ bPre' = b
        /\ b' = b
        /\ UNCHANGED <<hostVars, ifVars, pldVars, enumVars, signVars, packVars, pathVars, copyVars>>

FillPaddingCall ==
    \E length \in 0..MaxBuf, blkSize \in 0..MaxBlk :
        /\ padOp' = "FillPadding"
        /\ padLength' = length
        /\ padBlkSize' = blkSize
        /\ bPre' = b
        /\ IF blkSize = 0
           THEN padPanic' = TRUE /\ padRet' = 0 /\ b' = b
           ELSE LET padding == CalcPadding(length, blkSize)
                    total == length + padding
                IN  IF SliceInRange(b, length, total)
                    THEN /\ padPanic' = FALSE
                         /\ b' = FillLoop(b, length, total)
                         /\ padRet' = total
                    ELSE \* slice bounds out of range
                         padPanic' = TRUE /\ padRet' = 0 /\ b' = b
        /\ UNCHANGED <<hostVars, ifVars, pldVars, enumVars, signVars, packVars, pathVars, copyVars>>

(***************************************************************************)
(* addr.HostAddr: the host addresses handed to the sciond types.  A host   *)
(* address has a type and, for the two IP types, the address bytes; the    *)
(* None and SVC addresses carry no IP.                                      *)
(***************************************************************************)
HostTypeNone == "None"
HostTypeIPv4 == "IPv4"
HostTypeIPv6 == "IPv6"
HostTypeSVC == "SVC"

\* A nil HostAddr interface value.
NilHost == [type |-> "nil", ip |-> <<>>, svc |-> 0]

HostIPv4(ip) == [type |-> HostTypeIPv4, ip |-> ip, svc |-> 0]
HostIPv6(ip) == [type |-> HostTypeIPv6, ip |-> ip, svc |-> 0]
HostSVC(svc) == [type |-> HostTypeSVC, ip |-> <<>>, svc |-> svc]
HostNone == [type |-> HostTypeNone, ip |-> <<>>, svc |-> 0]

\* HostAddr.Type()
HostType(host) == host.type

\* HostAddr.IP(): the address bytes of an IP address, nil for None and SVC.
HostIP(host) ==
    IF host.type \in {HostTypeIPv4, HostTypeIPv6} THEN host.ip ELSE <<>>

IPv4Samples ==
    {<<10, 0, 0, 1>>, <<127, 0, 0, 1>>, <<192, 168, 1, 255>>}

IPv6Samples ==
    {<<0, 0, 0, 0, 0, 0, 0, 0, 0, 0, 0, 0, 0, 0, 0, 1>>,
     <<254, 128, 0, 0, 0, 0, 0, 0, 0, 0, 0, 0, 0, 0, 0, 1>>}

HostAddrs ==
    {HostIPv4(ip) : ip \in IPv4Samples}
        \cup {HostIPv6(ip) : ip \in IPv6Samples}
        \cup {HostSVC(svc) : svc \in {0, 1}}
        \cup {HostNone}

\* Sample ports (uint16).
Ports == {0, 1, 80, 443, 31000, 65535}

(***************************************************************************)
(* sciond.HostInfo                                                          *)
(***************************************************************************)
\* type HostInfo struct { Port uint16; Addrs struct { Ipv4, Ipv6 []byte } }
MkHostInfo(port, ipv4, ipv6) == [Port |-> port, Ipv4 |-> ipv4, Ipv6 |-> ipv6]

ZeroHostInfo == MkHostInfo(0, <<>>, <<>>)

\* func HostInfoFromHostAddr(host addr.HostAddr, port uint16) *HostInfo
\* The function has no error result: every non-nil host yields a HostInfo.
HostInfoFromHostAddr(host, port) ==
    IF HostType(host) = HostTypeIPv4
    THEN MkHostInfo(port, HostIP(host), <<>>)
    ELSE MkHostInfo(port, <<>>, HostIP(host))

\* func (h *HostInfo) Host() addr.HostAddr
HostInfo_Host(hi) ==
    IF Len(hi.Ipv4) > 0 THEN HostIPv4(hi.Ipv4) ELSE HostIPv6(hi.Ipv6)

HostInfoFromHostAddrCall ==
    \E host \in HostAddrs \cup {NilHost}, port \in Ports :
        /\ hostOp' = "HostInfoFromHostAddr"
        /\ hostArg' = host
        /\ portArg' = port
        /\ hostErr' = "nil"
        /\ hostRet' = NilHost
        /\ IF host = NilHost
           THEN \* host.Type() on a nil interface: nil pointer dereference
                hostPanic' = TRUE /\ h' = h
           ELSE hostPanic' = FALSE /\ h' = HostInfoFromHostAddr(host, port)
        /\ UNCHANGED <<padVars, ifVars, pldVars, enumVars, signVars, packVars, pathVars, copyVars>>

HostCall ==
    /\ hostOp' = "Host"
    /\ hostRet' = HostInfo_Host(h)
    /\ hostErr' = "nil"
    /\ hostPanic' = FALSE
    /\ UNCHANGED <<h, hostArg, portArg>>
    /\ UNCHANGED <<padVars, ifVars, pldVars, enumVars, signVars, packVars, pathVars, copyVars>>

HostIdle ==
    /\ h = ZeroHostInfo
    /\ hostOp = "none"
    /\ hostArg = NilHost
    /\ portArg = 0
    /\ hostErr = "nil"
    /\ hostPanic = FALSE
    /\ hostRet = NilHost

(***************************************************************************)
(* sciond.IFInfoReply                                                       *)
(***************************************************************************)
\* Sample interface ids (uint64).
IfIDs == {7, 9}

HostInfoSamples ==
    {HostInfoFromHostAddr(HostIPv4(<<10, 0, 0, 1>>), 31000),
     HostInfoFromHostAddr(HostIPv4(<<127, 0, 0, 1>>), 31000),
     HostInfoFromHostAddr(HostIPv6(<<0, 0, 0, 0, 0, 0, 0, 0, 0, 0, 0, 0, 0, 0, 0, 1>>), 80)}

\* type IFInfoReplyEntry struct { IfID uint64; HostInfo HostInfo }
IFInfoReplyEntries == [IfID : IfIDs, HostInfo : HostInfoSamples]

\* m[k] = v on a Go map.
MapPut(m, k, v) ==
    [x \in (DOMAIN m) \cup {k} |-> IF x = k THEN v ELSE m[x]]

\* Mutant: an interface id already in the map keeps its first HostInfo.
MapStore_FirstWins(m, entry) ==
    IF entry.IfID \in DOMAIN m THEN m ELSE MapPut(m, entry.IfID, entry.HostInfo)

\* The loop body of Entries: m[entry.IfID] = entry.HostInfo
MapStore(m, entry) ==
    MapPut(m, entry.IfID, entry.HostInfo)

\* The loop of Entries: `for _, entry := range reply.RawEntries`, from entry i on.
RECURSIVE EntriesLoop(_, _, _)
EntriesLoop(raw, i, m) ==
    IF i > Len(raw) THEN m ELSE EntriesLoop(raw, i + 1, MapStore(m, raw[i]))

\* func (reply *IFInfoReply) Entries() map[uint64]HostInfo
\* m := make(map[uint64]HostInfo) is the empty function <<>>.
IFInfoReply_Entries(r) ==
    EntriesLoop(r.RawEntries, 1, <<>>)

\* The decoder or the caller appends an entry to the exported field RawEntries.
AppendEntry ==
    \E entry \in IFInfoReplyEntries :
        /\ Len(reply.RawEntries) < MaxEntries
        /\ reply' = [reply EXCEPT !.RawEntries = Append(@, entry)]
        /\ ifOp' = "Append"
        /\ replyPre' = reply'
        /\ entriesRet' = <<>>
        /\ entriesPrev' = [called |-> FALSE, m |-> <<>>]
        /\ UNCHANGED <<padVars, hostVars, pldVars, enumVars, signVars, packVars, pathVars, copyVars>>

EntriesCall ==
    /\ ifOp' = "Entries"
    /\ replyPre' = reply
    /\ entriesRet' = IFInfoReply_Entries(reply)
    /\ entriesPrev' = [called |-> ifOp = "Entries", m |-> entriesRet]
    /\ reply' = reply
    /\ UNCHANGED <<padVars, hostVars, pldVars, enumVars, signVars, packVars, pathVars, copyVars>>

IfIdle ==
    /\ reply = [RawEntries |-> <<>>]
    /\ replyPre = [RawEntries |-> <<>>]
    /\ ifOp = "none"
    /\ entriesPrev = [called |-> FALSE, m |-> <<>>]
    /\ entriesRet = <<>>

(***************************************************************************)
(* Strings.  A string is a sequence of pieces; a number is formatted into  *)
(* its decimal digits, one piece per digit.                                 *)
(***************************************************************************)
Digit(d) ==
    <<"0", "1", "2", "3", "4", "5", "6", "7", "8", "9">>[d + 1]

\* fmt's %d (and %v) of an unsigned integer: its decimal digits.
RECURSIVE Itoa(_)
Itoa(n) ==
    IF n < 10 THEN <<Digit(n)>> ELSE Itoa(n \div 10) \o <<Digit(n % 10)>>

\* strings.Contains
Contains(str, sub) ==
    \E i \in 0..(Len(str) - Len(sub)) : SubSeq(str, i + 1, i + Len(sub)) = sub

(***************************************************************************)
(* common.BasicError                                                        *)
(***************************************************************************)
NoError == [msg |-> "", key |-> "", val |-> <<>>]

\* common.NewBasicError(msg, nil, key, val)
NewBasicError(msg, key, val) == [msg |-> msg, key |-> key, val |-> val]

\* BasicError.Error(): the message followed by the context pair.
ErrorString(err) ==
    <<err.msg, " ", err.key, "=\"">> \o err.val \o <<"\"">>

(***************************************************************************)
(* sciond.Pld                                                               *)
(***************************************************************************)
\* proto.SCIONDMsg_Which: the discriminant of the union.
SCIONDMsg_Which_unset == "unset"
SCIONDMsg_Which_pathReq == "pathReq"
SCIONDMsg_Which_pathReply == "pathReply"
SCIONDMsg_Which_asInfoReq == "asInfoReq"
SCIONDMsg_Which_asInfoReply == "asInfoReply"
SCIONDMsg_Which_revNotification == "revNotification"
SCIONDMsg_Which_revReply == "revReply"
SCIONDMsg_Which_ifInfoRequest == "ifInfoRequest"
SCIONDMsg_Which_ifInfoReply == "ifInfoReply"
SCIONDMsg_Which_serviceInfoRequest == "serviceInfoRequest"
SCIONDMsg_Which_serviceInfoReply == "serviceInfoReply"

\* The discriminants a Pld can carry: the defined ones, unset, and a numeric
\* value no constant names.
WhichValues ==
    {SCIONDMsg_Which_unset, SCIONDMsg_Which_pathReq, SCIONDMsg_Which_pathReply,
     SCIONDMsg_Which_asInfoReq, SCIONDMsg_Which_asInfoReply,
     SCIONDMsg_Which_revNotification, SCIONDMsg_Which_revReply,
     SCIONDMsg_Which_ifInfoRequest, SCIONDMsg_Which_ifInfoReply,
     SCIONDMsg_Which_serviceInfoRequest, SCIONDMsg_Which_serviceInfoReply,
     "Which(11)"}

\* A value of sub-message type `kind`; v tells two values of the type apart.
SubMsgs(kind) == {[kind |-> kind, v |-> v] : v \in {0, 1}}

\* The nil interface{} value.
NilValue == [kind |-> "nil", v |-> 0]

\* type Pld struct
Plds ==
    [Id : {0, 1234},
     Which : WhichValues,
     PathReq : SubMsgs("PathReq"),
     PathReply : SubMsgs("PathReply"),
     AsInfoReq : SubMsgs("ASInfoReq"),
     AsInfoReply : SubMsgs("ASInfoReply"),
     RevNotification : SubMsgs("RevNotification"),
     RevReply : SubMsgs("RevReply"),
     IfInfoRequest : SubMsgs("IFInfoRequest"),
     IfInfoReply : SubMsgs("IFInfoReply"),
     ServiceInfoRequest : SubMsgs("ServiceInfoRequest"),
     ServiceInfoReply : SubMsgs("ServiceInfoReply")]

\* Mutant: the revReply case returns the RevNotification field.
Pld_union_WrongField(pld) ==
    CASE pld.Which = SCIONDMsg_Which_pathReq -> [val |-> pld.PathReq, err |-> NoError]
      [] pld.Which = SCIONDMsg_Which_pathReply -> [val |-> pld.PathReply, err |-> NoError]
      [] pld.Which = SCIONDMsg_Which_asInfoReq -> [val |-> pld.AsInfoReq, err |-> NoError]
      [] pld.Which = SCIONDMsg_Which_asInfoReply -> [val |-> pld.AsInfoReply, err |-> NoError]
      [] pld.Which = SCIONDMsg_Which_revNotification -> [val |-> pld.RevNotification, err |-> NoError]
      [] pld.Which = SCIONDMsg_Which_revReply -> [val |-> pld.RevNotification, err |-> NoError]
      [] pld.Which = SCIONDMsg_Which_ifInfoRequest -> [val |-> pld.IfInfoRequest, err |-> NoError]
      [] pld.Which = SCIONDMsg_Which_ifInfoReply -> [val |-> pld.IfInfoReply, err |-> NoError]
      [] pld.Which = SCIONDMsg_Which_serviceInfoRequest -> [val |-> pld.ServiceInfoRequest, err |-> NoError]
      [] pld.Which = SCIONDMsg_Which_serviceInfoReply -> [val |-> pld.ServiceInfoReply, err |-> NoError]
      [] OTHER -> [val |-> NilValue,
                   err |-> NewBasicError("Unsupported SCIOND union type", "type", <<pld.Which>>)]

\* func (p *Pld) union() (interface{}, error)
Pld_union(pld) ==
    CASE pld.Which = SCIONDMsg_Which_pathReq -> [val |-> pld.PathReq, err |-> NoError]
      [] pld.Which = SCIONDMsg_Which_pathReply -> [val |-> pld.PathReply, err |-> NoError]
      [] pld.Which = SCIONDMsg_Which_asInfoReq -> [val |-> pld.AsInfoReq, err |-> NoError]
      [] pld.Which = SCIONDMsg_Which_asInfoReply -> [val |-> pld.AsInfoReply, err |-> NoError]
      [] pld.Which = SCIONDMsg_Which_revNotification -> [val |-> pld.RevNotification, err |-> NoError]
      [] pld.Which = SCIONDMsg_Which_revReply -> [val |-> pld.RevReply, err |-> NoError]
      [] pld.Which = SCIONDMsg_Which_ifInfoRequest -> [val |-> pld.IfInfoRequest, err |-> NoError]
      [] pld.Which = SCIONDMsg_Which_ifInfoReply -> [val |-> pld.IfInfoReply, err |-> NoError]
      [] pld.Which = SCIONDMsg_Which_serviceInfoRequest -> [val |-> pld.ServiceInfoRequest, err |-> NoError]
      [] pld.Which = SCIONDMsg_Which_serviceInfoReply -> [val |-> pld.ServiceInfoReply, err |-> NoError]
      [] OTHER -> [val |-> NilValue,
                   err |-> NewBasicError("Unsupported SCIOND union type", "type", <<pld.Which>>)]

\* fmt.Sprintf("%+v", u): the printed form of a sub-message value.
FmtPlusV(u) ==
    <<"{", u.kind, ":">> \o Itoa(u.v) \o <<"}">>

\* func (p *Pld) String() string
Pld_String(pld) ==
    LET desc == <<"Sciond: Id: ">> \o Itoa(pld.Id) \o <<" Union: ">>
        u == Pld_union(pld)
    IN  IF u.err # NoError
        THEN desc \o ErrorString(u.err)
        ELSE desc \o FmtPlusV(u.val)

UnionCall ==
    /\ pldOp' = "union"
    /\ unionRet' = Pld_union(p)
    /\ stringRet' = <<>>
    /\ p' = p
    /\ UNCHANGED <<padVars, hostVars, ifVars, enumVars, signVars, packVars, pathVars, copyVars>>

StringCall ==
    /\ pldOp' = "String"
    /\ stringRet' = Pld_String(p)
    /\ unionRet' = [val |-> NilValue, err |-> NoError]
    /\ p' = p
    /\ UNCHANGED <<padVars, hostVars, ifVars, enumVars, signVars, packVars, pathVars, copyVars>>

PldIdle ==
    /\ p = [Id |-> 0, Which |-> SCIONDMsg_Which_unset]
    /\ pldOp = "none"
    /\ unionRet = [val |-> NilValue, err |-> NoError]
    /\ stringRet = <<>>

(***************************************************************************)
(* sciond.PathErrorCode, sciond.RevResult, sciond.ServiceType               *)
(***************************************************************************)
ErrorOk == 0
ErrorNoPaths == 1
ErrorPSTimeout == 2
ErrorInternal == 3

RevValid == 0
RevStale == 1
RevInvalid == 2
RevUnknown == 3

SvcBS == 0
SvcPS == 1
SvcCS == 2
SvcBR == 3
SvcSB == 4

\* Sample uint16 values: the small ones and a few large ones.
Codes == (0..MaxCode) \cup {255, 256, 1000, 65535}

\* Mutant: the default case renders a fixed text without the value.
PathErrorCode_String_NoValue(c) ==
    CASE c = ErrorOk -> <<"OK">>
      [] c = ErrorNoPaths -> <<"No paths available">>
      [] c = ErrorPSTimeout -> <<"SCIOND timed out while requesting paths">>
      [] c = ErrorInternal -> <<"SCIOND experienced an internal error">>
      [] OTHER -> <<"Unknown error">>

\* func (c PathErrorCode) String() string
PathErrorCode_String(c) ==
    CASE c = ErrorOk -> <<"OK">>
      [] c = ErrorNoPaths -> <<"No paths available">>
      [] c = ErrorPSTimeout -> <<"SCIOND timed out while requesting paths">>
      [] c = ErrorInternal -> <<"SCIOND experienced an internal error">>
      [] OTHER -> <<"Unknown error (">> \o Itoa(c) \o <<")">>

\* func (c RevResult) String() string
RevResult_String(c) ==
    CASE c = RevValid -> <<"RevValid">>
      [] c = RevStale -> <<"RevStale">>
      [] c = RevInvalid -> <<"RevInvalid">>
      [] c = RevUnknown -> <<"RevUnknown">>
      [] OTHER -> <<"Unknown revocation result (">> \o Itoa(c) \o <<")">>

\* func (st ServiceType) String() string
ServiceType_String(st) ==
    CASE st = SvcBS -> <<"BS">>
      [] st = SvcPS -> <<"PS">>
      [] st = SvcCS -> <<"CS">>
      [] st = SvcBR -> <<"BR">>
      [] st = SvcSB -> <<"SB">>
      [] OTHER -> <<"??">>

PathErrorCodeStringCall ==
    \E c \in Codes :
        /\ enumOp' = "PathErrorCode"
        /\ enumArg' = c
        /\ enumRet' = PathErrorCode_String(c)
        /\ UNCHANGED <<padVars, hostVars, ifVars, pldVars, signVars, packVars, pathVars, copyVars>>

RevResultStringCall ==
    \E c \in Codes :
        /\ enumOp' = "RevResult"
        /\ enumArg' = c
        /\ enumRet' = RevResult_String(c)
        /\ UNCHANGED <<padVars, hostVars, ifVars, pldVars, signVars, packVars, pathVars, copyVars>>

ServiceTypeStringCall ==
    \E st \in Codes :
        /\ enumOp' = "ServiceType"
        /\ enumArg' = st
        /\ enumRet' = ServiceType_String(st)
        /\ UNCHANGED <<padVars, hostVars, ifVars, pldVars, signVars, packVars, pathVars, copyVars>>

EnumIdle ==
    /\ enumOp = "none"
    /\ enumArg = 0
    /\ enumRet = <<>>

(***************************************************************************)
(* crypto.Sign / crypto.Verify with Ed25519, as an ideal signature scheme:  *)
(* the signature of a message under a key pair is a value that only that   *)
(* pair and that message produce.                                           *)
(***************************************************************************)
KeyPairs == {0, 1}

PrivKey(k) == [kind |-> "priv", pair |-> k]
PubKey(k) == [kind |-> "pub", pair |-> k]
\* A key of a size that is neither a private nor a public Ed25519 key's.
BadKey == [kind |-> "bad", pair |-> 0]

Keys == {PrivKey(k) : k \in KeyPairs} \cup {PubKey(k) : k \in KeyPairs} \cup {BadKey}

Messages == [1..MsgLen -> {0, 1}]

\* The signature of message under key pair k.
IdealSig(k, message) == <<k>> \o message

\* crypto.Sign(sigInput, signKey, crypto.Ed25519)
crypto_Sign(message, key) ==
    IF key.kind = "priv"
    THEN [ret |-> IdealSig(key.pair, message), err |-> NoError]
    ELSE [ret |-> <<>>, err |-> NewBasicError("Invalid key size", "", <<>>)]

\* crypto.Verify(sigInput, sig, verifyKey, crypto.Ed25519)
crypto_Verify(message, sig, key) ==
    IF key.kind # "pub"
    THEN NewBasicError("Invalid key size", "", <<>>)
    ELSE IF sig = IdealSig(key.pair, message)
         THEN NoError
         ELSE NewBasicError("Invalid signature", "", <<>>)

(***************************************************************************)
(* proto.SignS                                                              *)
(***************************************************************************)
\* proto.SignType
SignType_none == 0
SignType_ed25519 == 1

SignTypes == 0..MaxSignType

\* Sample source descriptors ("A: 1", "B: ").
SrcSamples == {<<65, 58, 32, 49>>, <<66, 58, 32>>}

\* The byte strings the Signature field can be set to: none, or as many bytes
\* as a signature has.
SigValues == {<<>>} \cup [1..(MsgLen + 1) -> {0, 1}]

\* func NewSignS(type_ SignType, src common.RawBytes) *SignS
NewSignS(type, src) ==
    [Timestamp |-> 0, Type |-> type, Src |-> src, Signature |-> <<>>]

\* Mutant: an unsupported type is signed as type none is.
SignS_Sign_UnknownAsNone(sv, key, message) ==
    IF sv.Type = SignType_ed25519
    THEN crypto_Sign(message, key)
    ELSE [ret |-> <<>>, err |-> NoError]

\* func (s *SignS) Sign(key, message common.RawBytes) (common.RawBytes, error)
SignS_Sign(sv, key, message) ==
    CASE sv.Type = SignType_none -> [ret |-> <<>>, err |-> NoError]
      [] sv.Type = SignType_ed25519 -> crypto_Sign(message, key)
      [] OTHER -> [ret |-> <<>>,
                   err |-> NewBasicError("SignS.Sign: Unsupported SignType", "type",
                                         Itoa(sv.Type))]

\* Mutant: the timestamp is written only once signing has succeeded.
SignS_SignAndSet_TimestampOnSuccess(sv, key, message, t) ==
    LET r == SignS_Sign(sv, key, message)
    IN  IF r.err = NoError
        THEN [s |-> [sv EXCEPT !.Timestamp = t, !.Signature = r.ret], err |-> r.err]
        ELSE [s |-> [sv EXCEPT !.Signature = r.ret], err |-> r.err]

\* Mutant: a failed Sign leaves the Signature field as it was.
SignS_SignAndSet_KeepsOnError(sv, key, message, t) ==
    LET s1 == [sv EXCEPT !.Timestamp = t]
        r == SignS_Sign(s1, key, message)
    IN  IF r.err = NoError
        THEN [s |-> [s1 EXCEPT !.Signature = r.ret], err |-> r.err]
        ELSE [s |-> s1, err |-> r.err]

\* Mutant: the signature computed by Sign is not stored.
SignS_SignAndSet_NotStored(sv, key, message, t) ==
    LET s1 == [sv EXCEPT !.Timestamp = t]
        r == SignS_Sign(s1, key, message)
    IN  [s |-> s1, err |-> r.err]

\* func (s *SignS) SignAndSet(key, message common.RawBytes) error
\* t is uint64(time.Now().Unix()).
SignS_SignAndSet(sv, key, message, t) ==
    LET s1 == [sv EXCEPT !.Timestamp = t]
        r == SignS_Sign(s1, key, message)
    IN  [s |-> [s1 EXCEPT !.Signature = r.ret], err |-> r.err]

\* Mutant: type none is verified as ed25519 is.
SignS_Verify_NoneChecked(sv, key, message) ==
    IF sv.Type \in {SignType_none, SignType_ed25519}
    THEN crypto_Verify(message, sv.Signature, key)
    ELSE NewBasicError("SignS.Verify: Unsupported SignType", "type", Itoa(sv.Type))

\* func (s *SignS) Verify(key, message common.RawBytes) error
SignS_Verify(sv, key, message) ==
    CASE sv.Type = SignType_none -> NoError
      [] sv.Type = SignType_ed25519 -> crypto_Verify(message, sv.Signature, key)
      [] OTHER -> NewBasicError("SignS.Verify: Unsupported SignType", "type", Itoa(sv.Type))

NotSigned == [key |-> BadKey, msg |-> <<>>, sig |-> <<>>, signed |-> FALSE]

\* No instance was returned.
NoCopy == <<>>

NewSignSCall ==
    \E type \in SignTypes, src \in SrcSamples :
        /\ s' = NewSignS(type, src)
        /\ signOp' = "NewSignS"
        /\ argKey' = BadKey
        /\ argMsg' = <<>>
        /\ signRet' = <<>>
        /\ signErr' = NoError
        /\ lastSigned' = NotSigned
        /\ copyRet' = NoCopy
        /\ overwrote' = FALSE
        /\ UNCHANGED now
        /\ UNCHANGED <<padVars, hostVars, ifVars, pldVars, enumVars, packVars, pathVars, copyVars>>

\* Mutant: Sign stores the signature it returns.
SignCall_Stores ==
    \E key \in Keys, message \in Messages :
        LET r == SignS_Sign(s, key, message)
        IN  /\ signOp' = "Sign"
            /\ argKey' = key
            /\ argMsg' = message
            /\ signRet' = r.ret
            /\ signErr' = r.err
            /\ copyRet' = NoCopy
            /\ overwrote' = FALSE
            /\ s' = [s EXCEPT !.Signature = r.ret]
            /\ UNCHANGED <<now, lastSigned>>
            /\ UNCHANGED <<padVars, hostVars, ifVars, pldVars, enumVars, packVars, pathVars, copyVars>>

SignCall ==
    \E key \in Keys, message \in Messages :
        LET r == SignS_Sign(s, key, message)
        IN  /\ signOp' = "Sign"
            /\ argKey' = key
            /\ argMsg' = message
            /\ signRet' = r.ret
            /\ signErr' = r.err
            /\ copyRet' = NoCopy
            /\ overwrote' = FALSE
            /\ UNCHANGED <<s, now, lastSigned>>
            /\ UNCHANGED <<padVars, hostVars, ifVars, pldVars, enumVars, packVars, pathVars, copyVars>>

SignAndSetCall ==
    \E key \in Keys, message \in Messages :
        LET r == SignS_SignAndSet(s, key, message, now)
        IN  /\ signOp' = "SignAndSet"
            /\ argKey' = key
            /\ argMsg' = message
            /\ signRet' = <<>>
            /\ signErr' = r.err
            /\ s' = r.s
            /\ lastSigned' = IF r.err = NoError
                             THEN [key |-> key, msg |-> message,
                                   sig |-> r.s.Signature, signed |-> TRUE]
                             ELSE NotSigned
            /\ copyRet' = NoCopy
            /\ overwrote' = (s.Signature # <<>>)
            /\ UNCHANGED now
            /\ UNCHANGED <<padVars, hostVars, ifVars, pldVars, enumVars, packVars, pathVars, copyVars>>

VerifyCall ==
    \E key \in Keys, message \in Messages :
        /\ signOp' = "Verify"
        /\ argKey' = key
        /\ argMsg' = message
        /\ signRet' = <<>>
        /\ signErr' = SignS_Verify(s, key, message)
        /\ copyRet' = NoCopy
        /\ overwrote' = FALSE
        /\ UNCHANGED <<s, now, lastSigned>>
        /\ UNCHANGED <<padVars, hostVars, ifVars, pldVars, enumVars, packVars, pathVars, copyVars>>

\* The exported field Signature is written directly: by the decoder of a
\* received message, or by whoever alters the bytes in transit.
SetSignature ==
    \E sig \in SigValues :
        /\ sig # s.Signature
        /\ s' = [s EXCEPT !.Signature = sig]
        /\ signOp' = "SetSignature"
        /\ copyRet' = NoCopy
        /\ overwrote' = FALSE
        /\ UNCHANGED <<now, argKey, argMsg, signRet, signErr, lastSigned>>
        /\ UNCHANGED <<padVars, hostVars, ifVars, pldVars, enumVars, packVars, pathVars, copyVars>>

\* Time passes.
Tick ==
    /\ now < MaxTime
    /\ now' = now + 1
    /\ signOp' = "Tick"
    /\ copyRet' = NoCopy
    /\ overwrote' = FALSE
    /\ UNCHANGED <<s, argKey, argMsg, signRet, signErr, lastSigned>>
    /\ UNCHANGED <<padVars, hostVars, ifVars, pldVars, enumVars, packVars, pathVars, copyVars>>

SignIdle ==
    /\ s = NewSignS(SignType_none, <<>>)
    /\ now = 0
    /\ signOp = "none"
    /\ argKey = BadKey
    /\ argMsg = <<>>
    /\ signRet = <<>>
    /\ signErr = NoError
    /\ lastSigned = NotSigned
    /\ copyRet = NoCopy
    /\ overwrote = FALSE

(***************************************************************************)
(* proto.SignS.Pack                                                         *)
(***************************************************************************)
\* proto.SignType.String(): the name of a defined type, as bytes; the empty
\* string for a value no constant names.
SignType_String(type) ==
    CASE type = SignType_none -> <<110, 111, 110, 101>>
      [] type = SignType_ed25519 -> <<101, 100, 50, 53, 53, 49, 57>>
      [] OTHER -> <<>>

\* The n low-order bytes of v, most significant first.
RECURSIVE BigEndian(_, _)
BigEndian(v, n) ==
    IF n = 0 THEN <<>> ELSE BigEndian(v \div 256, n - 1) \o <<v % 256>>

\* raw := make(common.RawBytes, 8); common.Order.PutUint64(raw, v)
\* common.Order is binary.BigEndian.
PutUint64(v) == BigEndian(v, 8)

\* Mutant: Signature is appended before Src.
SignS_Pack_SignatureFirst(sv) ==
    PutUint64(sv.Timestamp) \o SignType_String(sv.Type) \o sv.Signature \o sv.Src

\* Mutant: the length of Src is written before its bytes.
SignS_Pack_SrcLength(sv) ==
    PutUint64(sv.Timestamp) \o SignType_String(sv.Type)
        \o <<Len(sv.Src)>> \o sv.Src \o sv.Signature

\* func (s *SignS) Pack() common.RawBytes
SignS_Pack(sv) ==
    LET raw0 == PutUint64(sv.Timestamp)
        raw1 == raw0 \o SignType_String(sv.Type)
        raw2 == raw1 \o sv.Src
        raw3 == raw2 \o sv.Signature
    IN  raw3

\* func (sbs *SignedBlobS) Pack() common.RawBytes
SignedBlobS_Pack(blob, sv) ==
    blob \o SignS_Pack(sv)

\* Sample timestamps (uint64): small ones and one with several non-zero bytes
\* (0x01020304).
TimestampSamples == {0, 258, 16909060}

\* The instances handed to Pack.
PackSignS ==
    [Timestamp : TimestampSamples,
     Type : SignTypes,
     Src : SeqUpTo({0, 1}, MaxField),
     Signature : SeqUpTo({0, 1}, MaxField)]

\* The exported fields of the instance are written: by the decoder of a
\* received message, or by the caller.
SetFields ==
    \E sv \in PackSignS :
        /\ sv # ps
        /\ ps' = sv
        /\ packOp' = "SetFields"
        /\ packRet' = <<>>
        /\ UNCHANGED <<padVars, hostVars, ifVars, pldVars, enumVars, signVars, pathVars, copyVars>>

PackCall ==
    /\ packOp' = "Pack"
    /\ packRet' = SignS_Pack(ps)
    /\ ps' = ps
    /\ UNCHANGED <<padVars, hostVars, ifVars, pldVars, enumVars, signVars, pathVars, copyVars>>

PackIdle ==
    /\ ps = NewSignS(SignType_none, <<>>)
    /\ packOp = "none"
    /\ packRet = <<>>

(***************************************************************************)
(* sciond.FwdPathMeta                                                       *)
(***************************************************************************)
\* A nil *addr.ISD_AS.
NilIA == [isNil |-> TRUE, I |-> 0, A |-> 0]

\* addr.IAInt.IA(): the ISD is the part above the low 20 bits, the AS the
\* low 20 bits.
IAInt_IA(raw) ==
    [isNil |-> FALSE, I |-> raw \div 1048576, A |-> raw % 1048576]

\* Sample packed ISD-AS values: 1-10, 1-11, 2-20.
IAIntSamples == {1048586, 1048587, 2097172}

\* type PathInterface struct { RawIsdas addr.IAInt; IfID uint64 }
PathInterfaces == [RawIsdas : IAIntSamples, IfID : {1, 2}]

\* func (iface *PathInterface) ISD_AS() *addr.ISD_AS
PathInterface_ISD_AS(iface) ==
    IAInt_IA(iface.RawIsdas)

\* func (fpm FwdPathMeta) SrcIA() *addr.ISD_AS
FwdPathMeta_SrcIA(meta) ==
    LET ifaces == meta.Interfaces
    IN  IF Len(ifaces) = 0 THEN NilIA ELSE PathInterface_ISD_AS(ifaces[0 + 1])

\* Mutant: DstIA reads the first interface, as SrcIA does.
FwdPathMeta_DstIA_First(meta) ==
    LET ifaces == meta.Interfaces
    IN  IF Len(ifaces) = 0 THEN NilIA ELSE PathInterface_ISD_AS(ifaces[0 + 1])

\* func (fpm FwdPathMeta) DstIA() *addr.ISD_AS
FwdPathMeta_DstIA(meta) ==
    LET ifaces == meta.Interfaces
    IN  IF Len(ifaces) = 0
        THEN NilIA
        ELSE PathInterface_ISD_AS(ifaces[(Len(ifaces) - 1) + 1])

\* The decoder or the caller appends a hop to the exported field Interfaces.
AppendInterface ==
    \E iface \in PathInterfaces :
        /\ Len(fpm.Interfaces) < MaxIfaces
        /\ fpm' = [fpm EXCEPT !.Interfaces = Append(@, iface)]
        /\ pathOp' = "Append"
        /\ iaRet' = NilIA
        /\ UNCHANGED <<padVars, hostVars, ifVars, pldVars, enumVars, signVars, packVars, copyVars>>

SrcIACall ==
    /\ pathOp' = "SrcIA"
    /\ iaRet' = FwdPathMeta_SrcIA(fpm)
    /\ fpm' = fpm
    /\ UNCHANGED <<padVars, hostVars, ifVars, pldVars, enumVars, signVars, packVars, copyVars>>

DstIACall ==
    /\ pathOp' = "DstIA"
    /\ iaRet' = FwdPathMeta_DstIA(fpm)
    /\ fpm' = fpm
    /\ UNCHANGED <<padVars, hostVars, ifVars, pldVars, enumVars, signVars, packVars, copyVars>>

PathIdle ==
    /\ fpm = [FwdPath |-> <<>>, Mtu |-> 1400, Interfaces |-> <<>>]
    /\ pathOp = "none"
    /\ iaRet = NilIA

(***************************************************************************)
(* proto.SignS.Copy.  Here a SignS is an object on the heap and its Src and *)
(* Signature are references to backing arrays, so that two instances can   *)
(* share storage.                                                           *)
(***************************************************************************)
\* The bytes of the slice ref in the heap bs (none for the nil slice).
Bytes(bs, ref) == IF ref = 0 THEN <<>> ELSE bs[ref]

\* append(common.RawBytes(nil), content...): a newly allocated array holding
\* content, or the nil slice if content is empty.
AppendToNil(bs, content) ==
    IF content = <<>>
    THEN [bufs |-> bs, ref |-> 0]
    ELSE [bufs |-> Append(bs, content), ref |-> Len(bs) + 1]

\* Mutant: the copy's Src refers to the original's array.
SignS_Copy_SharesSrc(os, bs, ptr) ==
    IF ptr = 0
    THEN [objs |-> os, bufs |-> bs, ret |-> 0]
    ELSE LET o == os[ptr]
             a2 == AppendToNil(bs, Bytes(bs, o.Signature))
         IN  [objs |-> Append(os, [Timestamp |-> o.Timestamp, Type |-> o.Type,
                                   Src |-> o.Src, Signature |-> a2.ref]),
              bufs |-> a2.bufs,
              ret |-> Len(os) + 1]

\* func (s *SignS) Copy() *SignS, on the heap (os, bs) with receiver ptr.
SignS_Copy(os, bs, ptr) ==
    IF ptr = 0
    THEN [objs |-> os, bufs |-> bs, ret |-> 0]
    ELSE LET o == os[ptr]
             a1 == AppendToNil(bs, Bytes(bs, o.Src))
             a2 == AppendToNil(a1.bufs, Bytes(a1.bufs, o.Signature))
         IN  [objs |-> Append(os, [Timestamp |-> o.Timestamp, Type |-> o.Type,
                                   Src |-> a1.ref, Signature |-> a2.ref]),
              bufs |-> a2.bufs,
              ret |-> Len(os) + 1]

CopyCall ==
    /\ orig # 0 => Len(objs) < MaxObjs
    /\ LET r == SignS_Copy(objs, bufs, orig)
       IN  /\ objs' = r.objs
           /\ bufs' = r.bufs
           /\ cpy' = r.ret
    /\ copyOp' = "Copy"
    /\ orig' = orig
    /\ UNCHANGED <<padVars, hostVars, ifVars, pldVars, enumVars, signVars, packVars, pathVars>>

\* A byte of the Src or the Signature of an instance is written through the
\* instance's slice.
WriteByte(ptr, op) ==
    \E field \in {"Src", "Signature"} :
        LET ref == objs[ptr][field]
        IN  /\ ref # 0
            /\ \E i \in 1..Len(bufs[ref]), v \in {0, 1} :
                  /\ v # bufs[ref][i]
                  /\ bufs' = [bufs EXCEPT ![ref][i] = v]
            /\ copyOp' = op
            /\ UNCHANGED <<objs, orig, cpy>>
            /\ UNCHANGED <<padVars, hostVars, ifVars, pldVars, enumVars, signVars, packVars, pathVars>>

WriteOrig ==
    /\ orig # 0
    /\ WriteByte(orig, "WriteOrig")

WriteCopy ==
    /\ cpy # 0
    /\ WriteByte(cpy, "WriteCopy")

CopyIdle ==
    /\ objs = <<>>
    /\ bufs = <<>>
    /\ orig = 0
    /\ cpy = 0
    /\ copyOp = "none"

(***************************************************************************)
(* Pack and Copy on the instance s of the signing component.                *)
(***************************************************************************)
\* The instance that Copy returns for an instance with the fields of sv: sv is
\* laid out on an empty heap, copied, and the copy is read back.
SignS_CopyOf(sv) ==
    LET a1 == AppendToNil(<<>>, sv.Src)
        a2 == AppendToNil(a1.bufs, sv.Signature)
        r == SignS_Copy(<<[Timestamp |-> sv.Timestamp, Type |-> sv.Type,
                           Src |-> a1.ref, Signature |-> a2.ref]>>, a2.bufs, 1)
        o == r.objs[r.ret]
    IN  [Timestamp |-> o.Timestamp, Type |-> o.Type,
         Src |-> Bytes(r.bufs, o.Src), Signature |-> Bytes(r.bufs, o.Signature)]

\* s.Pack()
PackOnSigned ==
    /\ signOp' = "Pack"
    /\ argKey' = BadKey
    /\ argMsg' = <<>>
    /\ signRet' = SignS_Pack(s)
    /\ signErr' = NoError
    /\ copyRet' = NoCopy
    /\ overwrote' = FALSE
    /\ UNCHANGED <<s, now, lastSigned>>
    /\ UNCHANGED <<padVars, hostVars, ifVars, pldVars, enumVars, packVars, pathVars, copyVars>>

\* s.Copy()
CopyOnSigned ==
    /\ signOp' = "Copy"
    /\ argKey' = BadKey
    /\ argMsg' = <<>>
    /\ signRet' = <<>>
    /\ signErr' = NoError
    /\ copyRet' = SignS_CopyOf(s)
    /\ overwrote' = FALSE
    /\ UNCHANGED <<s, now, lastSigned>>
    /\ UNCHANGED <<padVars, hostVars, ifVars, pldVars, enumVars, packVars, pathVars, copyVars>>

PadIdle ==
    /\ b = <<>>
    /\ bPre = <<>>
    /\ padOp = "none"
    /\ padLength = 0
    /\ padBlkSize = 0
    /\ padRet = 0
    /\ padPanic = FALSE

InitPad ==
    /\ b \in SeqUpTo(ByteVals, MaxBuf)
    /\ bPre = b
    /\ padOp = "none"
    /\ padLength = 0
    /\ padBlkSize = 0
    /\ padRet = 0
    /\ padPanic = FALSE
    /\ HostIdle
    /\ IfIdle
    /\ PldIdle
    /\ EnumIdle
    /\ SignIdle
    /\ PackIdle
    /\ PathIdle
    /\ CopyIdle

NextPad ==
    \/ CalcPaddingCall
    \/ FillPaddingCall

SpecPad == InitPad /\ [][NextPad]_vars

InitHost ==
    /\ HostIdle
    /\ PadIdle
    /\ IfIdle
    /\ PldIdle
    /\ EnumIdle
    /\ SignIdle
    /\ PackIdle
    /\ PathIdle
    /\ CopyIdle

NextHost ==
    \/ HostInfoFromHostAddrCall
    \/ HostCall

SpecHost == InitHost /\ [][NextHost]_vars

InitIf ==
    /\ IfIdle
    /\ PadIdle
    /\ HostIdle
    /\ PldIdle
    /\ EnumIdle
    /\ SignIdle
    /\ PackIdle
    /\ PathIdle
    /\ CopyIdle

NextIf ==
    \/ AppendEntry
    \/ EntriesCall

SpecIf == InitIf /\ [][NextIf]_vars

InitPld ==
    /\ p \in Plds
    /\ pldOp = "none"
    /\ unionRet = [val |-> NilValue, err |-> NoError]
    /\ stringRet = <<>>
    /\ PadIdle
    /\ HostIdle
    /\ IfIdle
    /\ EnumIdle
    /\ SignIdle
    /\ PackIdle
    /\ PathIdle
    /\ CopyIdle

NextPld ==
    \/ UnionCall
    \/ StringCall

SpecPld == InitPld /\ [][NextPld]_vars

InitEnum ==
    /\ EnumIdle
    /\ PadIdle
    /\ HostIdle
    /\ IfIdle
    /\ PldIdle
    /\ SignIdle
    /\ PackIdle
    /\ PathIdle
    /\ CopyIdle

NextEnum ==
    \/ PathErrorCodeStringCall
    \/ RevResultStringCall
    \/ ServiceTypeStringCall

SpecEnum == InitEnum /\ [][NextEnum]_vars

InitSign ==
    /\ \E type \in SignTypes, src \in SrcSamples : s = NewSignS(type, src)
    /\ now = 0
    /\ signOp = "NewSignS"
    /\ argKey = BadKey
    /\ argMsg = <<>>
    /\ signRet = <<>>
    /\ signErr = NoError
    /\ lastSigned = NotSigned
    /\ copyRet = NoCopy
    /\ overwrote = FALSE
    /\ PadIdle
    /\ HostIdle
    /\ IfIdle
    /\ PldIdle
    /\ EnumIdle
    /\ PackIdle
    /\ PathIdle
    /\ CopyIdle

NextSign ==
    \/ NewSignSCall
    \/ SignCall
    \/ SignAndSetCall
    \/ VerifyCall
    \/ SetSignature
    \/ Tick
    \/ PackOnSigned
    \/ CopyOnSigned

SpecSign == InitSign /\ [][NextSign]_vars

InitPack ==
    /\ ps \in PackSignS
    /\ packOp = "none"
    /\ packRet = <<>>
    /\ PadIdle
    /\ HostIdle
    /\ IfIdle
    /\ PldIdle
    /\ EnumIdle
    /\ SignIdle
    /\ PathIdle
    /\ CopyIdle

NextPack ==
    \/ SetFields
    \/ PackCall

SpecPack == InitPack /\ [][NextPack]_vars

InitPath ==
    /\ PathIdle
    /\ CopyIdle
    /\ PadIdle
    /\ HostIdle
    /\ IfIdle
    /\ PldIdle
    /\ EnumIdle
    /\ SignIdle
    /\ PackIdle
    /\ CopyIdle

NextPath ==
    \/ AppendInterface
    \/ SrcIACall
    \/ DstIACall

SpecPath == InitPath /\ [][NextPath]_vars

\* Either there is no instance (orig is nil), or one instance with its Src and
\* its Signature in arrays of their own.
InitCopy ==
    /\ \/ /\ objs = <<>>
          /\ bufs = <<>>
          /\ orig = 0
       \/ \E ts \in {0, 258}, type \in SignTypes,
             src \in SeqUpTo({0, 1}, MaxField), sig \in SeqUpTo({0, 1}, MaxField) :
             LET a1 == AppendToNil(<<>>, src)
                 a2 == AppendToNil(a1.bufs, sig)
             IN  /\ objs = <<[Timestamp |-> ts, Type |-> type,
                              Src |-> a1.ref, Signature |-> a2.ref]>>
                 /\ bufs = a2.bufs
                 /\ orig = 1
    /\ cpy = 0
    /\ copyOp = "none"
    /\ PadIdle
    /\ HostIdle
    /\ IfIdle
    /\ PldIdle
    /\ EnumIdle
    /\ SignIdle
    /\ PackIdle
    /\ PathIdle

NextCopy ==
    \/ CopyCall
    \/ WriteOrig
    \/ WriteCopy

SpecCopy == InitCopy /\ [][NextCopy]_vars

(***************************************************************************)
(* Claims                                                                   *)
(***************************************************************************)

\* C1: after a FillPadding(b, length, blkSize) that returns (blkSize > 0 and
\* enough room in b), every byte at a position in
\* [length, length + CalcPadding(length, blkSize)) is zero and every byte at
\* any other position has the value it had before the call.
C1_FillPaddingZeroesPaddingRegion ==
    (padOp = "FillPadding" /\ ~padPanic) =>
        /\ Len(b) = Len(bPre)
        /\ \A i \in 0..(Len(b) - 1) :
              IF padLength <= i /\ i < padLength + CalcPadding(padLength, padBlkSize)
              THEN b[i + 1] = 0
              ELSE b[i + 1] = bPre[i + 1]

\* C2: for length >= 0 and blkSize > 0 the value returned by
\* CalcPadding(length, blkSize) is in [0, blkSize), length plus that value is
\* the smallest multiple of blkSize that is >= length, and the value is 0
\* exactly when length is a multiple of blkSize.
C2_CalcPaddingRange ==
    (padOp = "CalcPadding" /\ ~padPanic) =>
        /\ padRet \in 0..(padBlkSize - 1)
        /\ \E q \in 0..(padLength + padBlkSize) : padLength + padRet = q * padBlkSize
        /\ \A n \in padLength..(padLength + padRet - 1) :
              \A q \in 0..n : n # q * padBlkSize
        /\ (padRet = 0) <=> (\E q \in 0..padLength : padLength = q * padBlkSize)

\* C2 witness: CalcPadding returned a non-zero padding for a length > blkSize.
C2_Witness ==
    /\ padOp = "CalcPadding"
    /\ ~padPanic
    /\ padBlkSize > 1
    /\ padLength > padBlkSize
    /\ padRet > 0

\* C3: every HostInfo returned by HostInfoFromHostAddr(host, port) has exactly
\* one of Addrs.Ipv4 and Addrs.Ipv6 non-empty and Port equal to the argument.
C3_HostInfoExactlyOneSlot ==
    (hostOp = "HostInfoFromHostAddr" /\ ~hostPanic /\ hostErr = "nil") =>
        /\ (Len(h.Ipv4) > 0) # (Len(h.Ipv6) > 0)
        /\ h.Port = portArg

\* C4: HostInfoFromHostAddr called with a host address whose type is neither
\* IPv4 nor IPv6 fails with an UnsupportedAddressFamily error.
C4_UnsupportedAddressFamily ==
    (/\ hostOp = "HostInfoFromHostAddr"
     /\ hostArg # NilHost
     /\ HostType(hostArg) \notin {HostTypeIPv4, HostTypeIPv6}) =>
        hostErr = "UnsupportedAddressFamily"

\* The field of Pld that a defined discriminant names.
FieldOfWhich ==
    [w \in WhichValues \ {SCIONDMsg_Which_unset, "Which(11)"} |->
        CASE w = "pathReq" -> "PathReq"
          [] w = "pathReply" -> "PathReply"
          [] w = "asInfoReq" -> "AsInfoReq"
          [] w = "asInfoReply" -> "AsInfoReply"
          [] w = "revNotification" -> "RevNotification"
          [] w = "revReply" -> "RevReply"
          [] w = "ifInfoRequest" -> "IfInfoRequest"
          [] w = "ifInfoReply" -> "IfInfoReply"
          [] w = "serviceInfoRequest" -> "ServiceInfoRequest"
          [] w = "serviceInfoReply" -> "ServiceInfoReply"]

\* C5: union() selects the sub-message by Which alone: for each of the ten
\* defined Which values it returns the field of the same kind and no error,
\* whatever the other nine fields hold; for any other Which value it returns
\* an error, and String() then returns a string that embeds the error's
\* description (for a defined Which it embeds the selected field).
C5_UnionSelectsByWhich ==
    /\ (pldOp = "union") =>
          IF p.Which \in DOMAIN FieldOfWhich
          THEN unionRet.err = NoError /\ unionRet.val = p[FieldOfWhich[p.Which]]
          ELSE unionRet.err # NoError /\ unionRet.val = NilValue
    /\ (pldOp = "String") =>
          IF p.Which \in DOMAIN FieldOfWhich
          THEN /\ Contains(stringRet, FmtPlusV(p[FieldOfWhich[p.Which]]))
               /\ ~Contains(stringRet, <<"Unsupported SCIOND union type">>)
          ELSE Contains(stringRet, <<"Unsupported SCIOND union type">>)

\* C5 witness: union() returned the RevReply field of a payload whose
\* RevReply and RevNotification fields hold different values.
C5_Witness ==
    /\ pldOp = "union"
    /\ p.Which = SCIONDMsg_Which_revReply
    /\ p.RevReply.v # p.RevNotification.v
    /\ unionRet.val = p.RevReply

\* The index of the last entry of raw that carries interface id k.
LastIndexOf(raw, k) ==
    CHOOSE i \in 1..Len(raw) :
        /\ raw[i].IfID = k
        /\ \A j \in (i + 1)..Len(raw) : raw[j].IfID # k

\* C6: Entries() returns a map whose key set is exactly the set of IfID values
\* in RawEntries and whose value for a key is the HostInfo of the last entry
\* in RawEntries order carrying that IfID; the call leaves RawEntries as it
\* was, and a second call on the same reply returns an equal map.
C6_EntriesLastWriteWins ==
    (ifOp = "Entries") =>
        /\ reply = replyPre
        /\ entriesPrev.called => entriesPrev.m = entriesRet
        /\ DOMAIN entriesRet = {reply.RawEntries[i].IfID : i \in 1..Len(reply.RawEntries)}
        /\ \A k \in DOMAIN entriesRet :
              entriesRet[k] = reply.RawEntries[LastIndexOf(reply.RawEntries, k)].HostInfo

\* C6 witness: Entries() was called twice in a row on a reply in which one
\* interface id occurs twice with different HostInfo.
C6_Witness ==
    /\ ifOp = "Entries"
    /\ entriesPrev.called
    /\ \E i, j \in 1..Len(reply.RawEntries) :
          /\ i < j
          /\ reply.RawEntries[i].IfID = reply.RawEntries[j].IfID
          /\ reply.RawEntries[i].HostInfo # reply.RawEntries[j].HostInfo

\* C7 (as stated): String() of a PathErrorCode, RevResult or ServiceType value
\* outside the enumeration returns a fallback string that contains the raw
\* numeric value.
C7_FallbackContainsValue ==
    \/ enumOp = "none"
    \/ (enumOp = "PathErrorCode" /\ enumArg \in {ErrorOk, ErrorNoPaths, ErrorPSTimeout, ErrorInternal})
    \/ (enumOp = "RevResult" /\ enumArg \in {RevValid, RevStale, RevInvalid, RevUnknown})
    \/ (enumOp = "ServiceType" /\ enumArg \in {SvcBS, SvcPS, SvcCS, SvcBR, SvcSB})
    \/ Contains(enumRet, Itoa(enumArg))

\* C7 (amended): String() of a value outside the enumeration returns
\* "Unknown error (N)" for a PathErrorCode and "Unknown revocation result (N)"
\* for a RevResult, N the decimal value, and the fixed string "??", which
\* does not contain the value, for a ServiceType.
C7_FallbackStrings ==
    /\ (enumOp = "PathErrorCode" /\ enumArg > ErrorInternal) =>
          /\ enumRet = <<"Unknown error (">> \o Itoa(enumArg) \o <<")">>
          /\ Contains(enumRet, Itoa(enumArg))
    /\ (enumOp = "RevResult" /\ enumArg > RevUnknown) =>
          /\ enumRet = <<"Unknown revocation result (">> \o Itoa(enumArg) \o <<")">>
          /\ Contains(enumRet, Itoa(enumArg))
    /\ (enumOp = "ServiceType" /\ enumArg > SvcSB) =>
          /\ enumRet = <<"??">>
          /\ ~Contains(enumRet, Itoa(enumArg))

\* C7 witness: String() was called on the PathErrorCode 65535.
C7_Witness ==
    /\ enumOp = "PathErrorCode"
    /\ enumArg = 65535
    /\ enumRet = <<"Unknown error (", "6", "5", "5", "3", "5", ")">>

\* C8: on a SignS whose Type is neither none nor ed25519, Sign(key, message)
\* and Verify(key, message) return the Unsupported SignType error for every
\* key and message, and the call changes no field of the instance.
C8_UnsupportedTypeFails ==
    [][(s.Type \notin {SignType_none, SignType_ed25519}) =>
          /\ (signOp' = "Sign") =>
                /\ signErr'.msg = "SignS.Sign: Unsupported SignType"
                /\ signRet' = <<>>
                /\ s' = s
          /\ (signOp' = "Verify") =>
                /\ signErr'.msg = "SignS.Verify: Unsupported SignType"
                /\ s' = s]_vars

\* C8 witness: Verify with a matching public key failed with the Unsupported
\* SignType error on an instance of an unsupported type.
C8_Witness ==
    /\ signOp = "Verify"
    /\ s.Type \notin {SignType_none, SignType_ed25519}
    /\ argKey.kind = "pub"
    /\ signErr.msg = "SignS.Verify: Unsupported SignType"

\* C9: on a SignS of Type none, Verify(key, message) returns no error for
\* every key, every message and every content of the Signature field, and the
\* call leaves the instance as it was.
C9_NoneAlwaysVerifies ==
    [][(s.Type = SignType_none /\ signOp' = "Verify") =>
          (signErr' = NoError /\ s' = s)]_vars

\* C9 witness: Verify succeeded on an instance of Type none that was never
\* signed, holds arbitrary Signature bytes and was given a key of a wrong size.
C9_Witness ==
    /\ signOp = "Verify"
    /\ s.Type = SignType_none
    /\ lastSigned = NotSigned
    /\ s.Signature # <<>>
    /\ argKey = BadKey
    /\ signErr = NoError

\* C10: on a SignS of Type ed25519 on which SignAndSet(privateKey, m) has
\* succeeded, Verify(publicKey, m) with the matching public key succeeds while
\* the Signature bytes are those SignAndSet stored; Verify(publicKey, m')
\* fails for every m' other than m, and Verify(publicKey, m) fails once the
\* Signature bytes have been altered.
C10_SignThenVerify ==
    (/\ signOp = "Verify"
     /\ s.Type = SignType_ed25519
     /\ lastSigned.signed
     /\ argKey = PubKey(lastSigned.key.pair)) =>
        /\ (argMsg = lastSigned.msg /\ s.Signature = lastSigned.sig) => signErr = NoError
        /\ (argMsg # lastSigned.msg /\ s.Signature = lastSigned.sig) => signErr # NoError
        /\ (argMsg = lastSigned.msg /\ s.Signature # lastSigned.sig) => signErr # NoError

\* C10 witness: Verify with the matching public key and the signed message
\* succeeded on an ed25519 instance after SignAndSet.
C10_Witness ==
    /\ signOp = "Verify"
    /\ s.Type = SignType_ed25519
    /\ lastSigned.signed
    /\ lastSigned.key.kind = "priv"
    /\ argKey = PubKey(lastSigned.key.pair)
    /\ argMsg = lastSigned.msg
    /\ s.Signature = lastSigned.sig
    /\ signErr = NoError

\* The unsigned integer that the bytes bs spell, most significant byte first.
RECURSIVE BytesValue(_)
BytesValue(bs) ==
    IF bs = <<>> THEN 0
    ELSE 256 * BytesValue(SubSeq(bs, 1, Len(bs) - 1)) + bs[Len(bs)]

\* C11: Pack() returns the concatenation, in this order, of the 8-byte
\* big-endian encoding of Timestamp, the bytes of Type.String(), the Src
\* bytes and the Signature bytes, so its length is
\* 8 + len(Type.String()) + len(Src) + len(Signature); Pack() leaves the
\* instance as it was.
C11_PackLayout ==
    [][(packOp' = "Pack") =>
          LET out == packRet'
              tl == Len(SignType_String(ps.Type))
              sl == Len(ps.Src)
              gl == Len(ps.Signature)
          IN  /\ ps' = ps
              /\ Len(out) = 8 + tl + sl + gl
              /\ \A i \in 1..8 : out[i] \in 0..255
              /\ BytesValue(SubSeq(out, 1, 8)) = ps.Timestamp
              /\ SubSeq(out, 9, 8 + tl) = SignType_String(ps.Type)
              /\ SubSeq(out, 9 + tl, 8 + tl + sl) = ps.Src
              /\ SubSeq(out, 9 + tl + sl, 8 + tl + sl + gl) = ps.Signature]_vars

\* C11 witness: Pack() was called on an ed25519 instance with a timestamp of
\* several non-zero bytes and with Src and Signature that differ.
C11_Witness ==
    /\ packOp = "Pack"
    /\ ps.Type = SignType_ed25519
    /\ ps.Timestamp = 16909060
    /\ ps.Src # <<>>
    /\ ps.Signature # <<>>
    /\ ps.Src # ps.Signature
    /\ SubSeq(packRet, 1, 8) = <<0, 0, 0, 0, 1, 2, 3, 4>>

\* C17: Pack() depends on Src and Signature only through their
\* concatenation: every SignS with the Timestamp and Type of the packed
\* instance and with the same bytes in Src followed by Signature has the
\* same Pack() output, wherever the boundary between the two fields lies.
C17_PackBoundaryAmbiguous ==
    (packOp = "Pack") =>
        \A other \in PackSignS :
            (/\ other.Timestamp = ps.Timestamp
             /\ other.Type = ps.Type
             /\ other.Src \o other.Signature = ps.Src \o ps.Signature) =>
                SignS_Pack(other) = packRet

\* C17 witness: Pack() was called on an instance for which another instance
\* with a different Src and Signature has the same output.
C17_Witness ==
    /\ packOp = "Pack"
    /\ \E other \in PackSignS :
          /\ other.Timestamp = ps.Timestamp
          /\ other.Type = ps.Type
          /\ other.Src # ps.Src
          /\ other.Signature # ps.Signature
          /\ other.Src \o other.Signature = ps.Src \o ps.Signature
          /\ SignS_Pack(other) = packRet

\* C14: SrcIA() and DstIA() both return nil when Interfaces is empty;
\* otherwise SrcIA() returns the ISD-AS of the first element of Interfaces and
\* DstIA() that of the last element.
C14_SrcDstIA ==
    LET ifaces == fpm.Interfaces
    IN  /\ (pathOp = "SrcIA") =>
              IF ifaces = <<>>
              THEN iaRet = NilIA
              ELSE iaRet = IAInt_IA(Head(ifaces).RawIsdas)
        /\ (pathOp = "DstIA") =>
              IF ifaces = <<>>
              THEN iaRet = NilIA
              ELSE iaRet = IAInt_IA(ifaces[Len(ifaces)].RawIsdas)

\* C14 witness: DstIA() returned ISD-AS 2-20 on a path of several hops whose
\* first hop is in another AS.
C14_Witness ==
    /\ pathOp = "DstIA"
    /\ Len(fpm.Interfaces) >= 2
    /\ Head(fpm.Interfaces).RawIsdas # fpm.Interfaces[Len(fpm.Interfaces)].RawIsdas
    /\ iaRet = [isNil |-> FALSE, I |-> 2, A |-> 20]

\* The fields of the instance ptr, its Src and Signature as bytes.
Content(ptr) ==
    [Timestamp |-> objs[ptr].Timestamp,
     Type |-> objs[ptr].Type,
     Src |-> Bytes(bufs, objs[ptr].Src),
     Signature |-> Bytes(bufs, objs[ptr].Signature)]

\* The arrays the instance ptr refers to.
Storage(ptr) == {objs[ptr].Src, objs[ptr].Signature} \ {0}

\* What C12 says of the result of Copy.
CopyResult ==
    IF orig = 0
    THEN cpy = 0
    ELSE /\ cpy # 0
         /\ cpy # orig
         /\ Content(cpy) = Content(orig)
         /\ Storage(cpy) \cap Storage(orig) = {}

\* C12: Copy() on a nil receiver returns nil; on a non-nil receiver it returns
\* a distinct instance with equal Timestamp and Type and with Src and
\* Signature of equal content that share no storage with the original, so
\* that a later write to a Src or Signature byte of the copy leaves the
\* original unchanged, and a write to the original leaves the copy unchanged.
C12_CopyIsDeep ==
    [][/\ (copyOp' = "Copy") => CopyResult'
       /\ (copyOp' = "WriteCopy" /\ orig # 0) => Content(orig)' = Content(orig)
       /\ (copyOp' = "WriteOrig" /\ cpy # 0) => Content(cpy)' = Content(cpy)]_vars

\* C12 witness: a byte of the copy's Src was written and the original, which
\* has a Signature too, now differs from its copy.
C12_Witness ==
    /\ copyOp = "WriteCopy"
    /\ orig # 0
    /\ cpy # 0
    /\ Content(orig).Src # Content(cpy).Src
    /\ Content(orig).Signature # <<>>
    /\ Content(orig).Signature = Content(cpy).Signature

\* C13 as stated: once SignAndSet has succeeded on an instance, no later Sign,
\* SignAndSet, Verify, Pack or Copy call on it changes its Timestamp or its
\* Signature.
C13_NeverResigned ==
    [][(lastSigned.signed /\ signOp' \in {"Sign", "SignAndSet", "Verify", "Pack", "Copy"}) =>
          (s'.Timestamp = s.Timestamp /\ s'.Signature = s.Signature)]_vars

\* C13 amended: once SignAndSet has succeeded on an instance, no later Sign,
\* Verify, Pack or Copy call on it changes its Timestamp or its Signature; a
\* later SignAndSet call re-signs it in place: Timestamp becomes the current
\* time and Signature what Sign returns for that call.
C13_OnlySignAndSetResigns ==
    [][lastSigned.signed =>
          /\ (signOp' \in {"Sign", "Verify", "Pack", "Copy"}) =>
                (s'.Timestamp = s.Timestamp /\ s'.Signature = s.Signature)
          /\ (signOp' = "SignAndSet") =>
                /\ s'.Timestamp = now
                /\ s'.Signature = SignS_Sign(s, argKey', argMsg').ret]_vars

\* C13 witness: Copy was called on an ed25519 instance that SignAndSet signed
\* at a time after its creation; the instance still carries that signature and
\* the copy is equal to it.
C13_Witness ==
    /\ signOp = "Copy"
    /\ lastSigned.signed
    /\ s.Type = SignType_ed25519
    /\ s.Timestamp > 0
    /\ s.Signature = lastSigned.sig
    /\ copyRet = s

\* C15: SignAndSet(key, message) returns an error exactly if Sign(key, message)
\* on the same instance does, and whether it fails or not the Timestamp of the
\* instance is the current time afterwards.
C15_SignAndSetFailsIffSignFails ==
    [][(signOp' = "SignAndSet") =>
          /\ (signErr' # NoError) <=> (SignS_Sign(s, argKey', argMsg').err # NoError)
          /\ signErr' = SignS_Sign(s, argKey', argMsg').err
          /\ s'.Timestamp = now]_vars

\* C15 witness: SignAndSet failed on an ed25519 instance, at a time other than
\* the Timestamp of a new instance, and the instance carries that time.
C15_Witness ==
    /\ signOp = "SignAndSet"
    /\ s.Type = SignType_ed25519
    /\ signErr # NoError
    /\ now > 0
    /\ s.Timestamp = now

\* C16: after every SignAndSet call, failed or not, the Signature of the
\* instance is what Sign returned for that call; it is empty if Type is none
\* or unsupported or if signing failed, whatever the Signature was before.
C16_SignatureIsSignResult ==
    [][(signOp' = "SignAndSet") =>
          /\ s'.Signature = SignS_Sign(s, argKey', argMsg').ret
          /\ (s.Type # SignType_ed25519 \/ signErr' # NoError) => s'.Signature = <<>>
          /\ (s.Type = SignType_ed25519 /\ signErr' = NoError) =>
                s'.Signature = IdealSig(argKey'.pair, argMsg')]_vars

\* C16 witness: SignAndSet failed on an ed25519 instance whose Signature was
\* not empty, and the Signature is empty now.
C16_Witness ==
    /\ signOp = "SignAndSet"
    /\ overwrote
    /\ s.Type = SignType_ed25519
    /\ signErr # NoError
    /\ s.Signature = <<>>

====
